---- MODULE Spec2Model ----
(***************************************************************************)
(* Model of the websocket client of the Petals text-generation API         *)
(* (src/src/lib.rs): the parameter builder, the encoding of the two        *)
(* outbound messages, and the session (open handshake, generate).          *)
(***************************************************************************)
EXTENDS Integers, Sequences, FiniteSets, TLC

(***************************************************************************)
(* Bounds of the model.                                                    *)
(***************************************************************************)
\* longest chain of setter calls on one builder
MaxSetterCalls == 3
\* most generate calls on one session
MaxGenerate == 2
\* most inbound frames waiting unread on the connection
MaxInbound == 2

(***************************************************************************)
(* Option<T>                                                               *)
(***************************************************************************)
None == [some |-> FALSE]
Some(v) == [some |-> TRUE, v |-> v]
is_none(o) == ~o.some
Option(S) == {None} \cup {Some(v) : v \in S}

(***************************************************************************)
(* enum Model with its serde names (lib.rs 9-22).                          *)
(***************************************************************************)
Model == {"Llama2_70bChatHf", "StableBeluga2", "Guanaco65b", "Llama65bHf", "Bloomz"}

\* the names as they would be with one rename copied from another variant
ModelWireName_copied_rename(m) ==
    CASE m = "Llama2_70bChatHf" -> "meta-llama/Llama-2-70b-chat-hf"
      [] m = "StableBeluga2"    -> "stabilityai/StableBeluga2"
      [] m = "Guanaco65b"       -> "timdettmers/guanaco-65b"
      [] m = "Llama65bHf"       -> "timdettmers/guanaco-65b"
      [] m = "Bloomz"           -> "bigscience/bloomz"

ModelWireName(m) ==
    CASE m = "Llama2_70bChatHf" -> "meta-llama/Llama-2-70b-chat-hf"
      [] m = "StableBeluga2"    -> "stabilityai/StableBeluga2"
      [] m = "Guanaco65b"       -> "timdettmers/guanaco-65b"
      [] m = "Llama65bHf"       -> "enoch/llama-65b-hf"
      [] m = "Bloomz"           -> "bigscience/bloomz"

\* enum RequestType with its serde names (lib.rs 47-53)
RequestTypeWireName(t) ==
    CASE t = "Generate"             -> "generate"
      [] t = "OpenInferenceSession" -> "open_inference_session"

(***************************************************************************)
(* Arguments the caller passes to the setters.  u32 values are integers,   *)
(* f32 values are written as their decimal literals.                       *)
(***************************************************************************)
ModelArgs == Model
InputsArgs == {"Hello"}
DoSampleArgs == BOOLEAN
TemperatureArgs == {"0.7"}
TopKArgs == {40}
TopPArgs == {"0.9"}
MaxLengthArgs == {100}
MaxNewTokensArgs == {20, 30}
StopSequenceArgs == {"</s>"}

Fields == {"model", "inputs", "do_sample", "temperature", "top_k", "top_p",
           "max_length", "max_new_tokens", "stop_sequence"}

(***************************************************************************)
(* GenerateParamsBuilder (lib.rs 134-203).  A builder wraps a              *)
(* GenerateParams record of nine Option fields.                            *)
(***************************************************************************)
new ==
    [model |-> None, inputs |-> None, do_sample |-> None, temperature |-> None,
     top_k |-> None, top_p |-> None, max_length |-> None, max_new_tokens |-> None,
     stop_sequence |-> None]

model(self, v) == [self EXCEPT !.model = Some(v)]

inputs(self, v) == [self EXCEPT !.inputs = Some(v)]

do_sample(self, v) == [self EXCEPT !.do_sample = Some(v)]

temperature(self, v) == [self EXCEPT !.temperature = Some(v)]

top_k(self, v) == [self EXCEPT !.top_k = Some(v)]

top_p_wrong_field(self, v) == [self EXCEPT !.temperature = Some(v)]

top_p(self, v) == [self EXCEPT !.top_p = Some(v)]

max_length(self, v) == [self EXCEPT !.max_length = Some(v)]

max_new_tokens(self, v) == [self EXCEPT !.max_new_tokens = Some(v)]

stop_sequence(self, v) == [self EXCEPT !.stop_sequence = Some(v)]

build_checks_inputs(self) ==
    IF is_none(self.max_length) /\ is_none(self.inputs)
    THEN None
    ELSE Some(self)

build(self) ==
    IF is_none(self.max_length) /\ is_none(self.max_new_tokens)
    THEN None
    ELSE Some(self)

(***************************************************************************)
(* Values a serialized request holds (serde_json output of the derived     *)
(* Serialize impls).  A request is a JSON object: a record whose DOMAIN is *)
(* the set of keys written.                                                *)
(***************************************************************************)
JNull == [t |-> "null"]
JString(s) == [t |-> "string", s |-> s]
JUint(n) == [t |-> "uint", n |-> n]
JFloat(x) == [t |-> "float", x |-> x]
JBool(b) == [t |-> "bool", b |-> b]

SerModel(m) == JString(ModelWireName(m))

SerRequestType(t) == JString(RequestTypeWireName(t))

\* Serialize for Option<T>, per payload type: None is written as null, Some(v) as v
SerOptionModel(o) == IF is_none(o) THEN JNull ELSE SerModel(o.v)

SerOptionString(o) == IF is_none(o) THEN JNull ELSE JString(o.v)

SerOptionU32_or_default(o) == IF is_none(o) THEN JUint(0) ELSE JUint(o.v)

SerOptionU32(o) == IF is_none(o) THEN JNull ELSE JUint(o.v)

SerOptionF32(o) == IF is_none(o) THEN JNull ELSE JFloat(o.v)

SerOptionBool(o) == IF is_none(o) THEN JNull ELSE JBool(o.v)

\* struct OpenSessionRequest (lib.rs 24-30), as serde_json::to_string writes it:
\* no field is skipped, so every field of the struct is a key of the object
OpenSessionRequest(request_type, ml, m) ==
    [type       |-> SerRequestType(request_type),
     max_length |-> JUint(ml),
     model      |-> SerOptionModel(m)]

\* GenerateRequest as it would be with the two length bounds exchanged
GenerateRequest_swaps_lengths(request_type, params) ==
    [type           |-> SerRequestType(request_type),
     model          |-> SerOptionModel(params.model),
     max_length     |-> SerOptionU32(params.max_new_tokens),
     inputs         |-> SerOptionString(params.inputs),
     stop_sequence  |-> SerOptionString(params.stop_sequence),
     do_sample      |-> SerOptionBool(params.do_sample),
     temperature    |-> SerOptionF32(params.temperature),
     top_k          |-> SerOptionU32(params.top_k),
     top_p          |-> SerOptionF32(params.top_p),
     max_new_tokens |-> SerOptionU32(params.max_length)]

\* struct GenerateRequest (lib.rs 32-45), as serde_json::to_string writes it
GenerateRequest(request_type, params) ==
    [type           |-> SerRequestType(request_type),
     model          |-> SerOptionModel(params.model),
     max_length     |-> SerOptionU32(params.max_length),
     inputs         |-> SerOptionString(params.inputs),
     stop_sequence  |-> SerOptionString(params.stop_sequence),
     do_sample      |-> SerOptionBool(params.do_sample),
     temperature    |-> SerOptionF32(params.temperature),
     top_k          |-> SerOptionU32(params.top_k),
     top_p          |-> SerOptionF32(params.top_p),
     max_new_tokens |-> SerOptionU32(params.max_new_tokens)]

(***************************************************************************)
(* Result<T, E>                                                            *)
(***************************************************************************)
Ok(v) == [ok |-> TRUE, v |-> v]
Err == [ok |-> FALSE]

(***************************************************************************)
(* The derived Deserialize impls (Model, RequestType, GenerateRequest):    *)
(* reading a JSON object back into the struct.                             *)
(***************************************************************************)
\* Deserialize for Model: the variant whose serde name the string is
DeModel(j) ==
    IF j.t # "string" THEN Err
    ELSE CASE j.s = "meta-llama/Llama-2-70b-chat-hf" -> Ok("Llama2_70bChatHf")
           [] j.s = "stabilityai/StableBeluga2"      -> Ok("StableBeluga2")
           [] j.s = "timdettmers/guanaco-65b"        -> Ok("Guanaco65b")
           [] j.s = "enoch/llama-65b-hf"             -> Ok("Llama65bHf")
           [] j.s = "bigscience/bloomz"              -> Ok("Bloomz")
           [] OTHER                                  -> Err

\* Deserialize for RequestType
DeRequestType(j) ==
    IF j.t # "string" THEN Err
    ELSE CASE j.s = "generate"               -> Ok("Generate")
           [] j.s = "open_inference_session" -> Ok("OpenInferenceSession")
           [] OTHER                          -> Err

DeString(j) == IF j.t = "string" THEN Ok(j.s) ELSE Err

\* the numbers of the model all fit a u32
DeU32(j) == IF j.t = "uint" /\ j.n >= 0 THEN Ok(j.n) ELSE Err

\* a JSON integer is accepted where an f32 is expected
DeF32(j) ==
    CASE j.t = "float" -> Ok(j.x)
      [] j.t = "uint"  -> Ok(j.n)
      [] OTHER         -> Err

DeBool(j) == IF j.t = "bool" THEN Ok(j.b) ELSE Err

\* the key is in the object with a value other than null
Present(obj, key) == key \in DOMAIN obj /\ obj[key] # JNull

\* Deserialize for Option<T>: Some(value) of a decoded value, the error of a failed one
Lift(r) == IF r.ok THEN Ok(Some(r.v)) ELSE Err

\* an Option field: a missing key and a null both give None
DeOptionModel(obj, key) == IF Present(obj, key) THEN Lift(DeModel(obj[key])) ELSE Ok(None)

DeOptionString(obj, key) == IF Present(obj, key) THEN Lift(DeString(obj[key])) ELSE Ok(None)

DeOptionU32(obj, key) == IF Present(obj, key) THEN Lift(DeU32(obj[key])) ELSE Ok(None)

DeOptionF32(obj, key) == IF Present(obj, key) THEN Lift(DeF32(obj[key])) ELSE Ok(None)

DeOptionBool(obj, key) == IF Present(obj, key) THEN Lift(DeBool(obj[key])) ELSE Ok(None)

\* Deserialize for GenerateRequest (lib.rs 32-45): type is required, the rest optional
DeGenerateRequest(obj) ==
    LET request_type == IF "type" \in DOMAIN obj THEN DeRequestType(obj.type) ELSE Err
        fields == [model          |-> DeOptionModel(obj, "model"),
                   max_length     |-> DeOptionU32(obj, "max_length"),
                   inputs         |-> DeOptionString(obj, "inputs"),
                   stop_sequence  |-> DeOptionString(obj, "stop_sequence"),
                   do_sample      |-> DeOptionBool(obj, "do_sample"),
                   temperature    |-> DeOptionF32(obj, "temperature"),
                   top_k          |-> DeOptionU32(obj, "top_k"),
                   top_p          |-> DeOptionF32(obj, "top_p"),
                   max_new_tokens |-> DeOptionU32(obj, "max_new_tokens")]
    IN IF request_type.ok /\ \A f \in DOMAIN fields : fields[f].ok
       THEN Ok([request_type   |-> request_type.v,
                model          |-> fields.model.v,
                max_length     |-> fields.max_length.v,
                inputs         |-> fields.inputs.v,
                stop_sequence  |-> fields.stop_sequence.v,
                do_sample      |-> fields.do_sample.v,
                temperature    |-> fields.temperature.v,
                top_k          |-> fields.top_k.v,
                top_p          |-> fields.top_p.v,
                max_new_tokens |-> fields.max_new_tokens.v])
       ELSE Err

\* tungstenite Message::Text(s)
Text(body) == [kind |-> "Text", utf8 |-> TRUE, body |-> body]

(***************************************************************************)
(* Inbound frames.  A frame is Text or Binary; its payload is either       *)
(* well-formed JSON (wf, with the serde_json::Value it parses to) or not.  *)
(* A Value string is a sequence of characters.                             *)
(***************************************************************************)
VNull == [t |-> "null"]
VBool(b) == [t |-> "bool", b |-> b]
\* a number is kept as the characters of its literal
VNumber(digits) == [t |-> "number", digits |-> digits]
VString(chars) == [t |-> "string", chars |-> chars]
VObject(m) == [t |-> "object", m |-> m]

Json(value) == [wf |-> TRUE, value |-> value]
Malformed == [wf |-> FALSE]

str_false == <<"f", "a", "l", "s", "e">>
str_true == <<"t", "r", "u", "e">>
str_boom == <<"b", "o", "o", "m">>
\* a traceback with a line break and a quote in it
str_trace == <<"E", "\n", "\"", "x", "\"">>
str_hi == <<"H", "i">>

Tracebacks == {str_boom, str_trace}

AckOkTrue == Text(Json(VObject([ok |-> VBool(TRUE)])))
AckOkFalse(tb) == Text(Json(VObject([ok |-> VBool(FALSE), traceback |-> VString(tb)])))
AckOkStrFalse(tb) == Text(Json(VObject([ok |-> VString(str_false), traceback |-> VString(tb)])))

AckFrames ==
    {AckOkTrue}
    \cup {AckOkFalse(tb) : tb \in Tracebacks}
    \cup {AckOkStrFalse(tb) : tb \in Tracebacks}
    \cup {Text(Json(VObject([ok |-> VString(str_false)]))),
          Text(Json(VObject([ok |-> VBool(FALSE)]))),
          Text(Json(VObject([ok |-> VNull]))),
          Text(Json(VObject([ok |-> VString(str_true)]))),
          Text(Json(VObject([ok |-> VNumber(<<"0">>)]))),
          Text(Json(VObject([traceback |-> VString(str_boom)]))),
          Text(Json(VString(str_false))),
          Text(Malformed),
          [kind |-> "Binary", utf8 |-> FALSE, body |-> Malformed],
          [kind |-> "Binary", utf8 |-> TRUE, body |-> Json(VObject([ok |-> VBool(TRUE)]))]}

\* struct Response (lib.rs 55-60) on the wire
ResponseFrames ==
    {Text(Json(VObject([ok |-> VBool(TRUE), outputs |-> VString(str_hi), stop |-> VBool(TRUE)])))}

\* Message::to_text: the text of a Text frame, the bytes of a Binary frame as UTF-8
to_text(message) ==
    IF message.kind = "Text" \/ message.utf8 THEN Ok(message.body) ELSE Err

\* serde_json::from_str::<Value>
from_str(text) == IF text.wf THEN Ok(text.value) ELSE Err

\* Value::get(key): None unless the value is an object holding the key
get(value, key) ==
    IF value.t = "object" /\ key \in DOMAIN value.m THEN Some(value.m[key]) ELSE None

\* impl PartialEq<&str> for Value: equal only to a Value::String of those characters
ValueEqStr(value, chars) == value.t = "string" /\ value.chars = chars

\* JSON string escaping of one character
EscapeChar(c) ==
    CASE c = "\"" -> <<"\\", "\"">>
      [] c = "\\" -> <<"\\", "\\">>
      [] c = "\n" -> <<"\\", "n">>
      [] OTHER    -> <<c>>

RECURSIVE EscapeChars(_)
EscapeChars(chars) ==
    IF chars = <<>> THEN <<>> ELSE EscapeChar(Head(chars)) \o EscapeChars(Tail(chars))

\* impl Display for Value (Value::to_string): the value as compact JSON text
to_string(value) ==
    CASE value.t = "string" -> <<"\"">> \o EscapeChars(value.chars) \o <<"\"">>
      [] value.t = "null"   -> <<"n", "u", "l", "l">>
      [] value.t = "bool"   -> IF value.b THEN str_true ELSE str_false
      [] value.t = "number" -> value.digits

(***************************************************************************)
(* State.                                                                  *)
(***************************************************************************)
VARIABLES
    builder,    \* Option: the GenerateParamsBuilder the caller holds
    calls,      \* the setter calls made on it, in order: [f, v]
    built,      \* Option: the value build() returned (itself an Option)
    pc,         \* where the open call stands: idle, connected, sent, done
    openArgs,   \* Option: the max_length and model passed to open
    conn,       \* the connection connect_async established ("none" before)
    outbound,   \* frames the transport accepted, in order: [conn, msg]
    inbound,    \* frames the server delivered and nobody read yet
    ack,        \* Option: the frame open read as the acknowledgment
    result,     \* outcome of open: none, Ok, TungsteniteError, ApiError, panic
    traceback,  \* the traceback of the ApiError open returned
    session,    \* Option: the InferenceSession open returned
    trace,      \* transport operations performed, in order: [op, ok], a send with its msg
    genLog      \* the generate calls made, in order: [params, ok], ok: Ok(()) returned

builderVars == <<builder, calls, built>>
sessionVars == <<pc, openArgs, conn, outbound, inbound, ack, result, traceback,
                 session, trace, genLog>>
vars == <<builder, calls, built, pc, openArgs, conn, outbound, inbound, ack,
          result, traceback, session, trace, genLog>>

Init ==
    /\ builder = None
    /\ calls = <<>>
    /\ built = None
    /\ pc = "idle"
    /\ openArgs = None
    /\ conn = "none"
    /\ outbound = <<>>
    /\ inbound = <<>>
    /\ ack = None
    /\ result = "none"
    /\ traceback = <<>>
    /\ session = None
    /\ trace = <<>>
    /\ genLog = <<>>

(***************************************************************************)
(* The caller drives a builder: new, a chain of setters, build.            *)
(***************************************************************************)
call_new ==
    /\ builder = None
    /\ built = None
    /\ builder' = Some(new)
    /\ UNCHANGED <<calls, built>>
    /\ UNCHANGED sessionVars

\* one action per setter: the call is logged under the setter's name
call_model ==
    /\ builder.some
    /\ Len(calls) < MaxSetterCalls
    /\ \E v \in ModelArgs :
          /\ builder' = Some(model(builder.v, v))
          /\ calls' = Append(calls, [f |-> "model", v |-> v])
    /\ UNCHANGED built
    /\ UNCHANGED sessionVars

call_inputs ==
    /\ builder.some
    /\ Len(calls) < MaxSetterCalls
    /\ \E v \in InputsArgs :
          /\ builder' = Some(inputs(builder.v, v))
          /\ calls' = Append(calls, [f |-> "inputs", v |-> v])
    /\ UNCHANGED built
    /\ UNCHANGED sessionVars

call_do_sample ==
    /\ builder.some
    /\ Len(calls) < MaxSetterCalls
    /\ \E v \in DoSampleArgs :
          /\ builder' = Some(do_sample(builder.v, v))
          /\ calls' = Append(calls, [f |-> "do_sample", v |-> v])
    /\ UNCHANGED built
    /\ UNCHANGED sessionVars

call_temperature ==
    /\ builder.some
    /\ Len(calls) < MaxSetterCalls
    /\ \E v \in TemperatureArgs :
          /\ builder' = Some(temperature(builder.v, v))
          /\ calls' = Append(calls, [f |-> "temperature", v |-> v])
    /\ UNCHANGED built
    /\ UNCHANGED sessionVars

call_top_k ==
    /\ builder.some
    /\ Len(calls) < MaxSetterCalls
    /\ \E v \in TopKArgs :
          /\ builder' = Some(top_k(builder.v, v))
          /\ calls' = Append(calls, [f |-> "top_k", v |-> v])
    /\ UNCHANGED built
    /\ UNCHANGED sessionVars

call_top_p ==
    /\ builder.some
    /\ Len(calls) < MaxSetterCalls
    /\ \E v \in TopPArgs :
          /\ builder' = Some(top_p(builder.v, v))
          /\ calls' = Append(calls, [f |-> "top_p", v |-> v])
    /\ UNCHANGED built
    /\ UNCHANGED sessionVars

call_max_length ==
    /\ builder.some
    /\ Len(calls) < MaxSetterCalls
    /\ \E v \in MaxLengthArgs :
          /\ builder' = Some(max_length(builder.v, v))
          /\ calls' = Append(calls, [f |-> "max_length", v |-> v])
    /\ UNCHANGED built
    /\ UNCHANGED sessionVars

call_max_new_tokens ==
    /\ builder.some
    /\ Len(calls) < MaxSetterCalls
    /\ \E v \in MaxNewTokensArgs :
          /\ builder' = Some(max_new_tokens(builder.v, v))
          /\ calls' = Append(calls, [f |-> "max_new_tokens", v |-> v])
    /\ UNCHANGED built
    /\ UNCHANGED sessionVars

call_stop_sequence ==
    /\ builder.some
    /\ Len(calls) < MaxSetterCalls
    /\ \E v \in StopSequenceArgs :
          /\ builder' = Some(stop_sequence(builder.v, v))
          /\ calls' = Append(calls, [f |-> "stop_sequence", v |-> v])
    /\ UNCHANGED built
    /\ UNCHANGED sessionVars

\* build(self) consumes the builder
call_build ==
    /\ builder.some
    /\ built' = Some(build(builder.v))
    /\ builder' = None
    /\ UNCHANGED calls
    /\ UNCHANGED sessionVars

NextBuilder ==
    \/ call_new
    \/ call_model
    \/ call_inputs
    \/ call_do_sample
    \/ call_temperature
    \/ call_top_k
    \/ call_top_p
    \/ call_max_length
    \/ call_max_new_tokens
    \/ call_stop_sequence
    \/ call_build

SpecBuilder == Init /\ [][NextBuilder]_vars

(***************************************************************************)
(* InferenceSession (lib.rs 68-119).                                       *)
(***************************************************************************)
\* arguments the caller passes to open
OpenMaxLengthArgs == {100, 2048}
OpenModelArgs == {None, Some("Llama2_70bChatHf")}

\* the connections connect_async can hand out
ConnIds == {"c1", "c2"}

\* builders the caller finishes; those build() accepts give generate its arguments
BuilderArgs ==
    {new,
     inputs(model(new, "Llama2_70bChatHf"), "Hello"),
     max_new_tokens(inputs(new, "Hello"), 20),
     max_length(model(new, "Bloomz"), 100),
     stop_sequence(max_new_tokens(max_length(top_p(top_k(temperature(do_sample(
         inputs(model(new, "Llama2_70bChatHf"), "Hello"),
         TRUE), "0.7"), 40), "0.9"), 100), 30), "</s>")}

GenerateParamsArgs == {build(b).v : b \in {a \in BuilderArgs : build(a).some}}

\* lib.rs 93: response.get("ok").unwrap() == "false"
ok_is_false_negated(ok) == ~ValueEqStr(ok, str_false)

\* the comparison as it would be if ok were read as a boolean too
ok_is_falsy(ok) == ValueEqStr(ok, str_false) \/ ok = [t |-> "bool", b |-> FALSE]

ok_is_false(ok) == ValueEqStr(ok, str_false)

Panic == [result |-> "panic", traceback |-> <<>>]

\* lib.rs 91-99: what open makes of the frame it read
handshake(message) ==
    LET text == to_text(message) IN
    IF ~text.ok THEN Panic
    ELSE LET response == from_str(text.v) IN
    IF ~response.ok THEN Panic
    ELSE LET ok == get(response.v, "ok") IN
    IF is_none(ok) THEN Panic
    ELSE IF ok_is_false(ok.v)
         THEN LET tb == get(response.v, "traceback") IN
              IF is_none(tb) THEN Panic
              ELSE [result |-> "ApiError", traceback |-> to_string(tb.v)]
         ELSE [result |-> "Ok", traceback |-> <<>>]

\* lib.rs 77-79: connect_async(url).await, a failure is mapped to TungsteniteError
open_connect ==
    /\ pc = "idle"
    /\ \E ml \in OpenMaxLengthArgs, m \in OpenModelArgs :
          openArgs' = Some([max_length |-> ml, model |-> m])
    /\ \E connected \in BOOLEAN :
          /\ trace' = Append(trace, [op |-> "connect", ok |-> connected])
          /\ IF connected
             THEN /\ conn' \in ConnIds
                  /\ pc' = "connected"
                  /\ UNCHANGED result
             ELSE /\ pc' = "done"
                  /\ result' = "TungsteniteError"
                  /\ UNCHANGED conn
    /\ UNCHANGED <<outbound, inbound, ack, traceback, session, genLog>>
    /\ UNCHANGED builderVars

\* open as it would be if a failed send were ignored and the read went ahead
open_send_ignores_failure ==
    /\ pc = "connected"
    /\ LET request == OpenSessionRequest("OpenInferenceSession",
                                         openArgs.v.max_length, openArgs.v.model)
       IN \E sent \in BOOLEAN :
          /\ trace' = Append(trace, [op |-> "send", ok |-> sent, msg |-> Text(request)])
          /\ outbound' = IF sent
                         THEN Append(outbound, [conn |-> conn, msg |-> Text(request)])
                         ELSE outbound
          /\ pc' = "sent"
          /\ UNCHANGED result
    /\ UNCHANGED <<openArgs, conn, inbound, ack, traceback, session, genLog>>
    /\ UNCHANGED builderVars

\* lib.rs 80-89: the OpenSessionRequest is serialized and sent
open_send ==
    /\ pc = "connected"
    /\ LET request == OpenSessionRequest("OpenInferenceSession",
                                         openArgs.v.max_length, openArgs.v.model)
       IN \E sent \in BOOLEAN :
          /\ trace' = Append(trace, [op |-> "send", ok |-> sent, msg |-> Text(request)])
          /\ IF sent
             THEN /\ outbound' = Append(outbound, [conn |-> conn, msg |-> Text(request)])
                  /\ pc' = "sent"
                  /\ UNCHANGED result
             ELSE /\ pc' = "done"
                  /\ result' = "TungsteniteError"
                  /\ UNCHANGED outbound
    /\ UNCHANGED <<openArgs, conn, inbound, ack, traceback, session, genLog>>
    /\ UNCHANGED builderVars

\* lib.rs 90-99: ws_stream.next().await yields the next frame, which is decoded
open_read ==
    /\ pc = "sent"
    /\ inbound # <<>>
    /\ LET message == Head(inbound)
           outcome == handshake(message)
       IN /\ inbound' = Tail(inbound)
          /\ ack' = Some(message)
          /\ trace' = Append(trace, [op |-> "next", ok |-> TRUE])
          /\ result' = outcome.result
          /\ traceback' = outcome.traceback
          /\ session' = IF outcome.result = "Ok" THEN Some([ws_stream |-> conn]) ELSE None
    /\ pc' = "done"
    /\ UNCHANGED <<openArgs, conn, outbound, genLog>>
    /\ UNCHANGED builderVars

\* lib.rs 90: next() yields None (stream ended) or Some(Err); both are unwrapped
open_read_fails ==
    /\ pc = "sent"
    /\ inbound = <<>>
    /\ trace' = Append(trace, [op |-> "next", ok |-> FALSE])
    /\ result' = "panic"
    /\ pc' = "done"
    /\ UNCHANGED <<openArgs, conn, outbound, inbound, ack, traceback, session, genLog>>
    /\ UNCHANGED builderVars

\* generate as it would be if it awaited a Response after sending
generate_awaits_response ==
    /\ session.some
    /\ Len(genLog) < MaxGenerate
    /\ \E params \in GenerateParamsArgs, sent \in BOOLEAN :
          LET request == GenerateRequest("Generate", params)
          IN /\ genLog' = Append(genLog, [params |-> params, ok |-> sent])
             /\ trace' = Append(trace, [op |-> "send", ok |-> sent, msg |-> Text(request)])
             /\ outbound' = IF sent
                            THEN Append(outbound,
                                        [conn |-> session.v.ws_stream, msg |-> Text(request)])
                            ELSE outbound
             /\ inbound' = IF sent /\ inbound # <<>> THEN Tail(inbound) ELSE inbound
    /\ UNCHANGED <<pc, openArgs, conn, ack, result, traceback, session>>
    /\ UNCHANGED builderVars

\* generate as it would be if it sent its frame again after a failed send
generate_resends ==
    /\ session.some
    /\ Len(genLog) < MaxGenerate
    /\ \E params \in GenerateParamsArgs, sent \in BOOLEAN :
          LET request == GenerateRequest("Generate", params)
              frame == [conn |-> session.v.ws_stream, msg |-> Text(request)]
          IN /\ genLog' = Append(genLog, [params |-> params, ok |-> sent])
             /\ trace' = IF sent
                         THEN Append(trace, [op |-> "send", ok |-> TRUE, msg |-> Text(request)])
                         ELSE Append(Append(trace,
                                            [op |-> "send", ok |-> FALSE, msg |-> Text(request)]),
                                     [op |-> "send", ok |-> TRUE, msg |-> Text(request)])
             /\ outbound' = Append(outbound, frame)
    /\ UNCHANGED <<pc, openArgs, conn, inbound, ack, result, traceback, session>>
    /\ UNCHANGED builderVars

\* generate as it would be if the result of the send were dropped
generate_swallows_error ==
    /\ session.some
    /\ Len(genLog) < MaxGenerate
    /\ \E params \in GenerateParamsArgs, sent \in BOOLEAN :
          LET request == GenerateRequest("Generate", params)
          IN /\ genLog' = Append(genLog, [params |-> params, ok |-> TRUE])
             /\ trace' = Append(trace, [op |-> "send", ok |-> sent, msg |-> Text(request)])
             /\ outbound' = IF sent
                            THEN Append(outbound,
                                        [conn |-> session.v.ws_stream, msg |-> Text(request)])
                            ELSE outbound
    /\ UNCHANGED <<pc, openArgs, conn, inbound, ack, result, traceback, session>>
    /\ UNCHANGED builderVars

\* generate as it would be if the session pinned the model passed to open
generate_uses_open_model ==
    /\ session.some
    /\ Len(genLog) < MaxGenerate
    /\ \E params \in GenerateParamsArgs, sent \in BOOLEAN :
          LET request == GenerateRequest("Generate",
                                         [params EXCEPT !.model = openArgs.v.model])
          IN /\ genLog' = Append(genLog, [params |-> params, ok |-> sent])
             /\ trace' = Append(trace, [op |-> "send", ok |-> sent, msg |-> Text(request)])
             /\ outbound' = IF sent
                            THEN Append(outbound,
                                        [conn |-> session.v.ws_stream, msg |-> Text(request)])
                            ELSE outbound
    /\ UNCHANGED <<pc, openArgs, conn, inbound, ack, result, traceback, session>>
    /\ UNCHANGED builderVars

\* generate as it would be on a session handed out before the acknowledgment is read
generate_before_handshake ==
    /\ pc = "sent" \/ session.some
    /\ Len(genLog) < MaxGenerate
    /\ \E params \in GenerateParamsArgs, sent \in BOOLEAN :
          LET request == GenerateRequest("Generate", params)
          IN /\ genLog' = Append(genLog, [params |-> params, ok |-> sent])
             /\ trace' = Append(trace, [op |-> "send", ok |-> sent, msg |-> Text(request)])
             /\ outbound' = IF sent
                            THEN Append(outbound, [conn |-> conn, msg |-> Text(request)])
                            ELSE outbound
    /\ UNCHANGED <<pc, openArgs, conn, inbound, ack, result, traceback, session>>
    /\ UNCHANGED builderVars

\* lib.rs 102-118: the GenerateRequest is serialized and sent; nothing is read
generate ==
    /\ session.some
    /\ Len(genLog) < MaxGenerate
    /\ \E params \in GenerateParamsArgs, sent \in BOOLEAN :
          LET request == GenerateRequest("Generate", params)
          IN /\ genLog' = Append(genLog, [params |-> params, ok |-> sent])
             /\ trace' = Append(trace, [op |-> "send", ok |-> sent, msg |-> Text(request)])
             /\ outbound' = IF sent
                            THEN Append(outbound,
                                        [conn |-> session.v.ws_stream, msg |-> Text(request)])
                            ELSE outbound
    /\ UNCHANGED <<pc, openArgs, conn, inbound, ack, result, traceback, session>>
    /\ UNCHANGED builderVars

\* the server end of the connection puts a frame on the stream
server_deliver ==
    /\ conn # "none"
    /\ result \in {"none", "Ok"}
    /\ Len(inbound) < MaxInbound
    /\ \E frame \in (IF ack = None /\ inbound = <<>> THEN AckFrames ELSE ResponseFrames) :
          inbound' = Append(inbound, frame)
    /\ UNCHANGED <<pc, openArgs, conn, outbound, ack, result, traceback, session,
                   trace, genLog>>
    /\ UNCHANGED builderVars

Next ==
    \/ open_connect
    \/ open_send
    \/ open_read
    \/ open_read_fails
    \/ generate
    \/ server_deliver

Spec == Init /\ [][Next]_vars

(***************************************************************************)
(* Vocabulary of the properties.                                           *)
(***************************************************************************)
\* the setter named f was called on the builder
Called(f) == \E i \in DOMAIN calls : calls[i].f = f

\* the argument of the last call of setter f, if there was one
LastArg(f) ==
    IF ~Called(f) THEN None
    ELSE LET last == CHOOSE i \in DOMAIN calls :
                        /\ calls[i].f = f
                        /\ \A j \in DOMAIN calls : j > i => calls[j].f # f
         IN Some(calls[last].v)

\* the setter named f, applied
Setter(self, f, v) ==
    CASE f = "model"          -> model(self, v)
      [] f = "inputs"         -> inputs(self, v)
      [] f = "do_sample"      -> do_sample(self, v)
      [] f = "temperature"    -> temperature(self, v)
      [] f = "top_k"          -> top_k(self, v)
      [] f = "top_p"          -> top_p(self, v)
      [] f = "max_length"     -> max_length(self, v)
      [] f = "max_new_tokens" -> max_new_tokens(self, v)
      [] f = "stop_sequence"  -> stop_sequence(self, v)

\* the builder a sequence of setter calls leaves, starting from new
RECURSIVE Replay(_)
Replay(cs) ==
    IF cs = <<>> THEN new
    ELSE LET c == cs[Len(cs)] IN Setter(Replay(SubSeq(cs, 1, Len(cs) - 1)), c.f, c.v)

\* cs with the calls at i and i+1 exchanged
SwapAt(cs, i) ==
    [k \in DOMAIN cs |-> IF k = i THEN cs[i + 1] ELSE IF k = i + 1 THEN cs[i] ELSE cs[k]]

\* the transport operations open performed (generate adds one send per call)
OpenOps == SubSeq(trace, 1, Len(trace) - Len(genLog))

\* the frames handed to the transport, and those of them it accepted
Sends == SelectSeq(trace, LAMBDA e : e.op = "send")

AcceptedSends == SelectSeq(trace, LAMBDA e : e.op = "send" /\ e.ok)

\* the generate calls whose frame the transport accepted
SentCalls == SelectSeq(genLog, LAMBDA e : e.ok)

\* the JSON object an outbound frame carries
Body(i) == outbound[i].msg.body

\* the parameters of the end-to-end example: inputs "Hello", max_new_tokens 20
ExampleParams == build(max_new_tokens(inputs(new, "Hello"), 20)).v

(***************************************************************************)
(* C1: an acknowledgment whose ok is the boolean false and that carries a  *)
(* traceback t makes open fail with ApiError whose traceback is exactly t, *)
(* and no session is returned.                                             *)
(***************************************************************************)
C1_OkFalseIsApiError ==
    \A tb \in Tracebacks :
        ack = Some(AckOkFalse(tb)) =>
            /\ result = "ApiError"
            /\ traceback = tb
            /\ session = None

(***************************************************************************)
(* C2: a transport failure at any stage of open (connect, send, handshake  *)
(* read) makes open return TungsteniteError, never ApiError or a session.  *)
(***************************************************************************)
C2_TransportFailureIsTungsteniteError ==
    (\E i \in DOMAIN OpenOps : ~OpenOps[i].ok) =>
        /\ result = "TungsteniteError"
        /\ session = None

(***************************************************************************)
(* C3: in every outbound message an optional field that was never set is   *)
(* absent as a key and never written as null; a Generate message built     *)
(* from only inputs and max_new_tokens has exactly the keys type, inputs,  *)
(* max_new_tokens, and an OpenSession message opened with model = None has *)
(* no model key.                                                           *)
(***************************************************************************)
C3_UnsetFieldsOmitted ==
    /\ \A i \in DOMAIN outbound : \A k \in DOMAIN Body(i) : Body(i)[k] # JNull
    /\ (outbound # <<>> /\ is_none(openArgs.v.model)) => "model" \notin DOMAIN Body(1)
    /\ \A i \in DOMAIN SentCalls :
          /\ \A f \in Fields :
                is_none(SentCalls[i].params[f]) => f \notin DOMAIN Body(i + 1)
          /\ SentCalls[i].params = ExampleParams =>
                DOMAIN Body(i + 1) = {"type", "inputs", "max_new_tokens"}

(***************************************************************************)
(* C4: when neither max_length nor max_new_tokens was called, build        *)
(* returns None whatever else was set; every parameter object build        *)
(* returns has one of the two bounds, and so has the Generate message      *)
(* made from it.                                                           *)
(***************************************************************************)
C4_BuildNeedsALengthBound ==
    built.some =>
        /\ (~Called("max_length") /\ ~Called("max_new_tokens")) => built.v = None
        /\ built.v.some =>
              /\ ~(is_none(built.v.v.max_length) /\ is_none(built.v.v.max_new_tokens))
              /\ LET request == GenerateRequest("Generate", built.v.v)
                 IN request.max_length # JNull \/ request.max_new_tokens # JNull

\* build returned None although other setters were called
C4_Witness ==
    /\ built = Some(None)
    /\ Called("model")
    /\ Called("inputs")

(***************************************************************************)
(* C5: when max_length or max_new_tokens was called, build returns a       *)
(* parameter object in which every field holds the argument of the last    *)
(* call of its setter, or None if the setter was never called; a setter    *)
(* changes its own field only, so exchanging two neighbouring calls to     *)
(* setters of different fields leaves the result unchanged.                *)
(***************************************************************************)
C5_LastWriteWinsPerField ==
    /\ builder.some => \A f \in Fields : builder.v[f] = LastArg(f)
    /\ (built.some /\ (Called("max_length") \/ Called("max_new_tokens"))) =>
          /\ built.v.some
          /\ \A f \in Fields : built.v.v[f] = LastArg(f)
          /\ \A i \in 1..(Len(calls) - 1) :
                calls[i].f # calls[i + 1].f => build(Replay(SwapAt(calls, i))) = built.v

\* a parameter object was built after one setter was called twice with
\* different arguments and another setter in between
C5_Witness ==
    /\ built.some
    /\ built.v.some
    /\ Len(calls) = 3
    /\ calls[1].f = calls[3].f
    /\ calls[1].v # calls[3].v
    /\ calls[2].f # calls[1].f

(***************************************************************************)
(* C6: when the frame read after the OpenSession frame is {"ok": true},    *)
(* open returns a session that owns the connection, generate can be called *)
(* on it, and every Generate frame is written to the connection the        *)
(* OpenSession frame went out on.                                          *)
(***************************************************************************)
C6_OkTrueOpensUsableSession ==
    ack = Some(AckOkTrue) =>
        /\ result = "Ok"
        /\ session = Some([ws_stream |-> conn])
        /\ Len(genLog) < MaxGenerate => ENABLED generate
        /\ Len(outbound) = 1 + Len(SentCalls)
        /\ \A i \in DOMAIN outbound : outbound[i].conn = outbound[1].conn

\* the handshake was {"ok": true} and a generate call wrote its frame
C6_Witness ==
    /\ ack = Some(AckOkTrue)
    /\ SentCalls # <<>>
    /\ Body(2).type = JString("generate")

(***************************************************************************)
(* C7: a generate call reads nothing from the transport: the frames        *)
(* waiting on the stream, the acknowledgment and the count of reads are    *)
(* the same after the call as before, its one transport operation is the   *)
(* send, and it can be called however many frames are waiting.             *)
(***************************************************************************)
C7_GenerateNeverReads ==
    /\ [][genLog' # genLog =>
            /\ inbound' = inbound
            /\ ack' = ack
            /\ Len(trace') = Len(trace) + 1
            /\ trace'[Len(trace')].op = "send"]_vars
    /\ [](session.some /\ Len(genLog) < MaxGenerate => ENABLED generate)

\* two generate calls completed while Response frames wait unread
C7_Witness ==
    /\ Len(genLog) = 2
    /\ Len(inbound) = 2
    /\ \A i \in DOMAIN inbound : inbound[i] \in ResponseFrames

(***************************************************************************)
(* C8: after a successful open and n generate calls, the frames handed to  *)
(* the transport are exactly one OpenSession frame followed by the n       *)
(* Generate frames in call order and nothing else; the frames the          *)
(* transport accepted are those of them whose send succeeded, in the same  *)
(* order.                                                                  *)
(***************************************************************************)
C8_OneOpenThenGeneratesInOrder ==
    session.some =>
        /\ Len(Sends) = 1 + Len(genLog)
        /\ Sends[1].msg.body.type = JString("open_inference_session")
        /\ Sends[1].msg =
              Text(OpenSessionRequest("OpenInferenceSession",
                                      openArgs.v.max_length, openArgs.v.model))
        /\ \A i \in DOMAIN genLog :
              /\ Sends[i + 1].msg.body.type = JString("generate")
              /\ Sends[i + 1].msg = Text(GenerateRequest("Generate", genLog[i].params))
              /\ Sends[i + 1].ok = genLog[i].ok
        /\ Len(outbound) = Len(AcceptedSends)
        /\ \A i \in DOMAIN outbound : outbound[i].msg = AcceptedSends[i].msg

\* open(100, Llama2), then the example generate call and a second, different
\* one, with nothing read in between
C8_Witness ==
    /\ openArgs = Some([max_length |-> 100, model |-> Some("Llama2_70bChatHf")])
    /\ Len(genLog) = 2
    /\ genLog[1] = [params |-> ExampleParams, ok |-> TRUE]
    /\ genLog[2].ok
    /\ genLog[2].params # ExampleParams
    /\ Len(outbound) = 3
    /\ Len(trace) = 5

(***************************************************************************)
(* C9: an acknowledgment that cannot be decoded (its payload is not text,  *)
(* not valid JSON, has no ok field, or is an error acknowledgment, ok      *)
(* false, without traceback) never leads to the Open state: no session is  *)
(* returned.                                                               *)
(***************************************************************************)
Undecodable(message) ==
    \/ message.kind # "Text" /\ ~message.utf8
    \/ ~message.body.wf
    \/ message.body.value.t # "object"
    \/ "ok" \notin DOMAIN message.body.value.m
    \/ /\ message.body.value.m.ok \in {VBool(FALSE), VString(str_false)}
       /\ "traceback" \notin DOMAIN message.body.value.m

C9_UndecodableAckNeverOpens ==
    (ack.some /\ Undecodable(ack.v)) =>
        /\ result # "Ok"
        /\ session = None

(***************************************************************************)
(* C10: every transport or protocol failure during open or generate is     *)
(* returned to the caller as an error value; none aborts the task.         *)
(***************************************************************************)
C10_NoFailurePanics == result # "panic"

C12_OpenStepsOnceInOrder ==
    LET order == <<"connect", "send", "next">> IN
    /\ Len(OpenOps) <= 3
    /\ \A i \in DOMAIN OpenOps : OpenOps[i].op = order[i]
    /\ \A i \in DOMAIN OpenOps : i < Len(OpenOps) => OpenOps[i].ok
    /\ ack.some => Len(OpenOps) = 3
    /\ (pc = "done" /\ ~OpenOps[Len(OpenOps)].ok) =>
          /\ Len(outbound) = Len(AcceptedSends)
          /\ Len(OpenOps) < 3 => ack = None /\ session = None

\* the send failed while a frame was waiting: open ended without reading it
C12_Witness ==
    /\ pc = "done"
    /\ Len(trace) = 2
    /\ ~trace[2].ok
    /\ inbound # <<>>
    /\ ack = None

(***************************************************************************)
(* C13: a generate call returns Ok exactly when the transport took its     *)
(* frame without error and the transport's failure otherwise; it hands     *)
(* the transport one frame, never a second one after a failure, and it     *)
(* produces no ApiError: the outcome of open stays as it was.              *)
(***************************************************************************)
C13_GenerateReturnsSendOutcome ==
    [][genLog' # genLog =>
          LET call == genLog'[Len(genLog')]
              op == trace'[Len(trace')]
          IN /\ genLog' = Append(genLog, call)
             /\ trace' = Append(trace, op)
             /\ op.op = "send"
             /\ call.ok = op.ok
             /\ outbound' = IF op.ok
                            THEN Append(outbound, [conn |-> conn, msg |-> op.msg])
                            ELSE outbound
             /\ result' = result
             /\ result' # "ApiError"
             /\ traceback' = traceback]_vars

\* one generate call failed at the transport, the next one succeeded
C13_Witness ==
    /\ Len(genLog) = 2
    /\ ~genLog[1].ok
    /\ genLog[2].ok
    /\ Len(outbound) = 2
    /\ result = "Ok"

(***************************************************************************)
(* C14: the frame open writes has type open_inference_session and carries  *)
(* the max_length and the model passed to open; the frame generate writes  *)
(* has type generate and under each of its nine parameter keys the value   *)
(* of that field of params (no value where the field is unset), never the  *)
(* value of another field or of the open call.                             *)
(***************************************************************************)
\* the value an object holds under a key; a missing key holds none
ValueAt(obj, key) == IF key \in DOMAIN obj THEN obj[key] ELSE JNull

C15_ModelNotEnforced ==
    /\ session.some => DOMAIN session.v = {"ws_stream"}
    /\ (session.some /\ Len(genLog) < MaxGenerate) =>
          \A p \in GenerateParamsArgs :
              ENABLED (generate /\ genLog' = Append(genLog, [params |-> p, ok |-> TRUE]))
    /\ \A i \in DOMAIN genLog :
          ValueAt(Sends[i + 1].msg.body, "model") =
              (IF genLog[i].params.model.some
               THEN JString(ModelWireName(genLog[i].params.model.v))
               ELSE JNull)

\* open named Llama2; one generate call named Bloomz and one named no model,
\* and the transport took both frames
C15_Witness ==
    /\ openArgs.some
    /\ openArgs.v.model = Some("Llama2_70bChatHf")
    /\ Len(genLog) = 2
    /\ genLog[1].ok
    /\ genLog[2].ok
    /\ genLog[1].params.model = Some("Bloomz")
    /\ genLog[2].params.model = None
    /\ Body(2).model = JString("bigscience/bloomz")

(***************************************************************************)
(* C16: a Generate frame is handed to a connection only after the          *)
(* acknowledgment was read from that connection and open accepted it;      *)
(* when open ended in a failure (ApiError, transport error, or an abort    *)
(* while reading or decoding the acknowledgment) there is no session and   *)
(* no Generate frame was or will be sent on the connection.                *)
(***************************************************************************)
C16_GenerateOnlyAfterAcceptedAck ==
    /\ (genLog # <<>> \/ Len(Sends) > 1) =>
          /\ ack.some
          /\ handshake(ack.v).result = "Ok"
          /\ result = "Ok"
          /\ session = Some([ws_stream |-> conn])
          /\ Len(trace) >= 3
          /\ trace[3] = [op |-> "next", ok |-> TRUE]
          /\ \A i \in DOMAIN outbound : outbound[i].conn = conn
    /\ result \in {"ApiError", "TungsteniteError", "panic"} =>
          /\ pc = "done"
          /\ session = None
          /\ genLog = <<>>
          /\ Len(Sends) <= 1
          /\ \A i \in DOMAIN outbound : Body(i).type = JString("open_inference_session")
          /\ ~ENABLED generate

\* open ended with ApiError after its OpenSession frame went out
C16_Witness ==
    /\ result = "ApiError"
    /\ traceback # <<>>
    /\ Len(outbound) = 1
    /\ session = None

(***************************************************************************)
(* C17: open takes for a successful handshake every acknowledgment it can  *)
(* decode whose ok is anything but the JSON string "false" (true, false,   *)
(* null, a number, another string) and returns ApiError only when ok is    *)
(* the string "false": the acknowledgments that lead to Open are exactly   *)
(* those with an ok key whose value is not the string "false".             *)
(***************************************************************************)
\* the frame's payload is a JSON object with an ok key
HasOk(message) ==
    /\ message.kind = "Text" \/ message.utf8
    /\ message.body.wf
    /\ message.body.value.t = "object"
    /\ "ok" \in DOMAIN message.body.value.m

OkOf(message) == message.body.value.m.ok

C17_OpenUnlessOkIsStringFalse ==
    ack.some =>
        /\ result \in {"Ok", "ApiError", "panic"}
        /\ (result = "Ok") = (HasOk(ack.v) /\ OkOf(ack.v) # VString(str_false))
        /\ (result = "Ok") = session.some
        /\ result = "ApiError" => (HasOk(ack.v) /\ OkOf(ack.v) = VString(str_false))

\* the acknowledgment was {"ok": false} with a traceback, and open returned a session
C17_Witness ==
    /\ ack = Some(AckOkFalse(str_boom))
    /\ result = "Ok"
    /\ session.some

(***************************************************************************)
(* C18: the five Model variants are written as the five wire strings, one  *)
(* each: different variants give different strings, and reading the string *)
(* of a variant back gives that variant.                                   *)
(***************************************************************************)
\* the models the setter calls named, in order
ModelsCalled == SelectSeq(calls, LAMBDA c : c.f = "model")

C18_ModelNamesInjective ==
    /\ {ModelWireName(m) : m \in Model} =
          {"meta-llama/Llama-2-70b-chat-hf", "stabilityai/StableBeluga2",
           "timdettmers/guanaco-65b", "enoch/llama-65b-hf", "bigscience/bloomz"}
    /\ \A m1, m2 \in Model : ModelWireName(m1) = ModelWireName(m2) => m1 = m2
    /\ \A i, k \in DOMAIN ModelsCalled :
          ModelsCalled[i].v # ModelsCalled[k].v =>
              SerModel(ModelsCalled[i].v) # SerModel(ModelsCalled[k].v)
    /\ (builder.some /\ builder.v.model.some) =>
          /\ builder.v.model.v \in Model
          /\ DeModel(SerModel(builder.v.model.v)) = Ok(builder.v.model.v)

\* the model setter was called with two different variants, the last one is held
C18_Witness ==
    /\ builder.some
    /\ Len(ModelsCalled) = 2
    /\ ModelsCalled[1].v = "Guanaco65b"
    /\ ModelsCalled[2].v = "Llama65bHf"
    /\ builder.v.model = Some("Llama65bHf")

====
